---- MODULE Spec2Model ----
(***************************************************************************)
(* Model of smach_ros.ServiceState (service_state.py): one step instance,  *)
(* the thread that invokes execute ("main"), the client's dispatch thread  *)
(* that runs _done_cb ("exec"), and the environment (preemption requests,  *)
(* shutdown, endpoint readiness, service replies, user callbacks).         *)
(***************************************************************************)
EXTENDS Integers, Sequences, FiniteSets, TLC

\* ---------------------------------------------------------------- bounds
MaxInvocations == 1        \* invocations of execute in a run of Spec
MaxSeqInvocations == 2     \* invocations of execute in a run of SeqSpec
MaxPolls == 2              \* wait_for_service calls in one invocation

\* ------------------------------------------------------ values and labels
None == "None"
NoOutcome == "NoOutcome"

\* Python values held by the blackboard and by the step's attributes
Absent == [t |-> "absent"]
NoneVal == [t |-> "none"]
Ref(o) == [t |-> "ref", o |-> o]
Val(v) == [t |-> "val", v |-> v]
Unset == [t |-> "unset"]

\* the response object future.result() yields for call c, and its field r
Result(c) == [t |-> "resp", call |-> c]
RespField(resp, key) == [t |-> "field", of |-> resp.call, key |-> key]

\* request objects: the construction default, the one the blackboard may
\* hold under the request key, and the one a request callback may return
Objs == {"dflt", "bbobj", "cbobj"}
FreshObj(o) == [origin |-> o, a |-> "d", b |-> "d"]
SetAttr(obj, key, v) == [obj EXCEPT ![key] = v]

Keys == {"req", "a", "b", "resp", "r", "cbout"}

\* modules bound at the top of service_state.py
ImportedModules == {"time", "rclpy", "rclpy.node", "threading", "smach"}

BaseOutcomes == {"succeeded", "aborted", "preempted"}

\* what a response callback may return
CbLabels == {None, "custom", "bogus"}

\* exception types call_async / add_done_callback may raise
SubmitErrors == {"TypeError", "RuntimeError"}

\* ------------------------------------------------- construction arguments
\* every request policy with every response policy; extra outcomes are only
\* given together with a response callback, response slots only with a key
Configs ==
    { c \in [ request_key : {None, "req"},
              request_slots : {<<>>, <<"a", "b">>},
              request_cb : BOOLEAN,
              response_cb : BOOLEAN,
              response_key : {None, "resp"},
              response_slots : {<<>>, <<"r">>},
              outcomes : {{}, {"custom"}} ] :
        /\ (c.outcomes # {} => c.response_cb)
        /\ (c.response_slots # <<>> => c.response_key # None) }

\* the policies of the runs that invoke execute several times: the request
\* policies that keep or replace self._request, with no or every response
\* policy
SeqConfigs ==
    { c \in Configs :
        /\ << c.request_key, c.request_slots, c.request_cb >> \in
              { << None, <<>>, FALSE >>, << None, <<>>, TRUE >>,
                << None, << "a", "b" >>, TRUE >>, << "req", << "a", "b" >>, TRUE >> }
        /\ << c.response_cb, c.response_key, c.response_slots, c.outcomes >> \in
              { << FALSE, None, <<>>, {} >>, << TRUE, "resp", << "r" >>, {"custom"} >> } }

VARIABLES
    cfg,            \* the constructor's arguments (fixed)
    budget,         \* invocations of execute the container makes in this run
    ud,             \* the blackboard: key -> value
    heap,           \* request objects: object -> fields
    request,        \* self._request: None or an object
    response,       \* self._response
    pc,             \* position of the invoking thread
    outcome,        \* label execute returned
    exception,      \* exception that escaped execute
    slotIdx,        \* loop index of the request-slot loop
    pendingExc,     \* exception in flight inside the with-blocks
    response_cb_outcome,
    condOwner,      \* owner of the lock of self._done_cond
    condCount,      \* its recursion depth (threading.Condition() wraps an RLock)
    waiting,        \* the invoking thread is inside self._done_cond.wait()
    notified,       \* ... and a notify() has released it
    tasksLock,      \* owner of node.executor._tasks_lock
    pendingCalls,   \* calls whose future is not done
    doneCalls,      \* calls whose future is done
    registered,     \* calls whose future holds _done_cb
    scheduled,      \* calls whose _done_cb is queued on the dispatch thread
    pcD,            \* position of the dispatch thread
    dCall,          \* the call whose _done_cb the dispatch thread runs
    preempt,        \* RosState's preemption flag
    rclpyOk,        \* rclpy.ok()
    serviceReady,   \* the endpoint is up
    inv,            \* number of execute invocations started
    polls,          \* wait_for_service calls of this invocation
    nCalls,         \* total call_async calls that returned a future
    hist            \* history of the current invocation (observation only)

vars == << cfg, budget, ud, heap, request, response, pc, outcome, exception, slotIdx,
           pendingExc, response_cb_outcome, condOwner, condCount, waiting,
           notified, tasksLock, pendingCalls, doneCalls, registered, scheduled,
           pcD, dCall, preempt, rclpyOk, serviceReady, inv, polls, nCalls, hist >>

\* ServiceState.__init__ registers the base outcomes, the callback's and the
\* explicit ones
RegisteredOutcomes == BaseOutcomes \cup cfg.outcomes

\* what is recorded about one invocation, starting from blackboard u, objects
\* h, self._request r and preemption flag p
NewHist(u, h, r, p) ==
    [ calls |-> 0, myCall |-> 0, sent |-> Unset, preemptBefore |-> p,
      reqCbCalled |-> FALSE, reqCbResult |-> None, ud0 |-> u, heap0 |-> h,
      request0 |-> r, syncFired |-> FALSE, wokenBy |-> 0, consumed |-> Unset,
      submitRaised |-> None, respCbRaised |-> FALSE, reqCbRaised |-> FALSE,
      respCbResult |-> None, gatePreempt |-> FALSE, built |-> FALSE,
      early |-> FALSE, writes |-> 0, regs |-> 0, preemptIn |-> p,
      atEntry |-> p, shutdownAbort |-> FALSE ]

InitUd(c) ==
    { u \in [Keys -> {Absent, NoneVal, Ref("bbobj"), Val("u")}] :
        /\ u["req"] \in (IF c.request_key = None THEN {Absent}
                         ELSE {Absent, NoneVal, Ref("bbobj")})
        /\ \A k \in {"a", "b"} :
              u[k] \in (IF c.request_slots = <<>> THEN {Absent} ELSE {Absent, Val("u")})
        /\ \A k \in {"resp", "r", "cbout"} : u[k] = Absent }

\* the state after ServiceState.__init__, for policies cs and n invocations
InitWith(cs, n) ==
    /\ cfg \in cs
    /\ budget = n
    /\ ud \in InitUd(cfg)
    /\ heap = [o \in Objs |-> FreshObj(o)]
    /\ request = "dflt"
    /\ response = Unset
    /\ pc = "idle"
    /\ outcome = NoOutcome
    /\ exception = None
    /\ slotIdx = 1
    /\ pendingExc = None
    /\ response_cb_outcome = None
    /\ condOwner = "free"
    /\ condCount = 0
    /\ waiting = FALSE
    /\ notified = FALSE
    /\ tasksLock = "free"
    /\ pendingCalls = {}
    /\ doneCalls = {}
    /\ registered = {}
    /\ scheduled = {}
    /\ pcD = "idle"
    /\ dCall = 0
    /\ preempt = FALSE
    /\ rclpyOk = TRUE
    /\ serviceReady \in BOOLEAN
    /\ inv = 0
    /\ polls = 0
    /\ nCalls = 0
    /\ hist = NewHist(ud, heap, request, FALSE)

Init == InitWith(Configs, MaxInvocations)
SeqInit == InitWith(SeqConfigs, MaxSeqInvocations)
LiveInit == InitWith(SeqConfigs, MaxInvocations)

lockVars == << condOwner, condCount, waiting, notified, tasksLock >>
futVars == << pendingCalls, doneCalls, registered, scheduled, nCalls >>
dVars == << pcD, dCall >>
envVars == << preempt, rclpyOk, serviceReady >>
dataVars == << ud, heap, request, response >>
localVars == << slotIdx, pendingExc, response_cb_outcome, polls >>

\* execute returns a label / an exception leaves execute
Return(label) == pc' = "done" /\ outcome' = label /\ exception' = None
Raise(e) == pc' = "done" /\ outcome' = NoOutcome /\ exception' = e
Goto(l) == pc' = l /\ UNCHANGED << outcome, exception >>

\* positions of execute inside the readiness loop
InLoop == { "loop", "loop_preempt", "loop_ok", "loop_wait" }

\* positions of execute before call_async has been called
PreDispatch == { "gate", "loop", "loop_preempt", "loop_ok", "loop_wait", "reqkey",
                 "slots", "reqcb", "nullcheck", "acq_cond", "acq_tasks", "call_async" }

\* RosState.service_preempt acknowledges the request
service_preempt == preempt' = FALSE

\* ------------------------------------------------------------ environment
\* the enclosing container calls execute(ud)
Invoke ==
    /\ pc \in {"idle", "done"}
    /\ inv < budget
    /\ inv' = inv + 1
    /\ pc' = "gate"
    /\ outcome' = NoOutcome
    /\ exception' = None
    /\ slotIdx' = 1
    /\ pendingExc' = None
    /\ response_cb_outcome' = None
    /\ polls' = 0
    /\ hist' = NewHist(ud, heap, request, preempt)
    /\ UNCHANGED << cfg, budget, dataVars, lockVars, futVars, dVars, envVars >>

\* another step of the container sets or deletes a request slot key while
\* this step is not executing
ContainerWrites ==
    /\ pc \in {"idle", "done"}
    /\ inv < budget
    /\ cfg.request_slots # <<>>
    /\ \E k \in {"a", "b"} :
          ud' = [ud EXCEPT ![k] = IF @ = Absent THEN Val("u") ELSE Absent]
    /\ UNCHANGED << cfg, budget, heap, request, response, pc, outcome, exception, localVars,
                    lockVars, futVars, dVars, envVars, inv, hist >>

\* another thread calls request_preempt on the step
RequestPreempt ==
    /\ ~preempt
    /\ preempt' = TRUE
    /\ hist' = [hist EXCEPT !.preemptBefore = @ \/ (pc \in PreDispatch),
                            !.preemptIn = @ \/ (pc \notin {"idle", "done"})]
    /\ UNCHANGED << cfg, budget, dataVars, pc, outcome, exception, localVars, lockVars,
                    futVars, dVars, rclpyOk, serviceReady, inv >>

\* rclpy shuts down (modelled where the step can be affected: rclpy.ok() is
\* read in the readiness loop, and the step may be blocked on the bridge)
Shutdown ==
    /\ rclpyOk
    /\ pc \in InLoop \cup {"blocked"}
    /\ rclpyOk' = FALSE
    /\ UNCHANGED << cfg, budget, dataVars, pc, outcome, exception, localVars, lockVars,
                    futVars, dVars, preempt, serviceReady, inv, hist >>

\* the endpoint comes up or goes away (read only in the readiness loop)
ServiceChange ==
    /\ pc \in InLoop
    /\ serviceReady' = ~serviceReady
    /\ UNCHANGED << cfg, budget, dataVars, pc, outcome, exception, localVars, lockVars,
                    futVars, dVars, preempt, rclpyOk, inv, hist >>

\* ------------------------------------------------- execute, lines 117-143
\* (mutant: the pre-flight check is missing)
PreemptGate_NoCheck ==
    /\ pc = "gate"
    /\ Goto("loop")
    /\ UNCHANGED << cfg, budget, dataVars, localVars, lockVars, futVars, dVars, envVars,
                    inv, hist >>

PreemptGate ==
    /\ pc = "gate"
    /\ IF preempt
       THEN /\ service_preempt
            /\ Return("preempted")
            /\ hist' = [hist EXCEPT !.gatePreempt = TRUE]
       ELSE /\ Goto("loop")
            /\ UNCHANGED << preempt, hist >>
    /\ UNCHANGED << cfg, budget, dataVars, localVars, lockVars, futVars, dVars, rclpyOk,
                    serviceReady, inv >>

\* while not self._proxy.service_is_ready(), inside try ... except: 'aborted'
\* (first disjunct: service_is_ready raises, which the bare except absorbs)
LoopCheck ==
    /\ pc = "loop"
    /\ \/ Return("aborted") /\ UNCHANGED hist
       \/ serviceReady /\ Goto("reqkey") /\ hist' = [hist EXCEPT !.built = TRUE]
       \/ ~serviceReady /\ Goto("loop_preempt") /\ UNCHANGED hist
    /\ UNCHANGED << cfg, budget, dataVars, localVars, lockVars, futVars, dVars, envVars,
                    inv >>

\* (mutant: the loop does not look at the preemption request)
LoopPreempt_NoCheck ==
    /\ pc = "loop_preempt"
    /\ Goto("loop_ok")
    /\ UNCHANGED << cfg, budget, dataVars, localVars, lockVars, futVars, dVars, envVars,
                    inv, hist >>

LoopPreempt ==
    /\ pc = "loop_preempt"
    /\ IF preempt
       THEN /\ service_preempt
            /\ Return("preempted")
            /\ hist' = [hist EXCEPT !.gatePreempt = TRUE]
       ELSE /\ Goto("loop_ok")
            /\ UNCHANGED << preempt, hist >>
    /\ UNCHANGED << cfg, budget, dataVars, localVars, lockVars, futVars, dVars, rclpyOk,
                    serviceReady, inv >>

\* (mutant: the loop does not look at rclpy.ok())
LoopOk_NoCheck ==
    /\ pc = "loop_ok"
    /\ Goto("loop_wait")
    /\ UNCHANGED << cfg, budget, dataVars, localVars, lockVars, futVars, dVars, envVars,
                    inv, hist >>

LoopOk ==
    /\ pc = "loop_ok"
    /\ IF ~rclpyOk
       THEN Return("aborted") /\ hist' = [hist EXCEPT !.shutdownAbort = TRUE]
       ELSE Goto("loop_wait") /\ UNCHANGED hist
    /\ UNCHANGED << cfg, budget, dataVars, localVars, lockVars, futVars, dVars, envVars,
                    inv >>

\* self._proxy.wait_for_service(1.0): either result goes round the loop
LoopWait ==
    /\ pc = "loop_wait"
    /\ polls < MaxPolls
    /\ polls' = polls + 1
    /\ Goto("loop")
    /\ UNCHANGED << cfg, budget, dataVars, slotIdx, pendingExc, response_cb_outcome,
                    lockVars, futVars, dVars, envVars, inv, hist >>

\* ------------------------------------------------- execute, lines 145-180
\* Grab request key if set
ReqKey ==
    /\ pc = "reqkey"
    /\ IF cfg.request_key = None
       THEN Goto("slots") /\ UNCHANGED request
       ELSE IF ud[cfg.request_key] # Absent
            THEN /\ request' = (IF ud[cfg.request_key] = NoneVal THEN None
                                ELSE ud[cfg.request_key].o)
                 /\ Goto("slots")
            ELSE Return("aborted") /\ UNCHANGED request
    /\ UNCHANGED << cfg, budget, ud, heap, response, localVars, lockVars, futVars, dVars,
                    envVars, inv, hist >>

\* one iteration of: for key in self._request_slots
ReqSlot ==
    /\ pc = "slots"
    /\ IF slotIdx > Len(cfg.request_slots)
       THEN Goto("reqcb") /\ UNCHANGED << heap, slotIdx >>
       ELSE LET key == cfg.request_slots[slotIdx] IN
            IF ud[key] # Absent
            THEN IF request = None
                 THEN Raise("AttributeError") /\ UNCHANGED << heap, slotIdx >>
                 ELSE /\ heap' = [heap EXCEPT ![request] = SetAttr(@, key, ud[key].v)]
                      /\ slotIdx' = slotIdx + 1
                      /\ Goto("slots")
            ELSE Return("aborted") /\ UNCHANGED << heap, slotIdx >>
    /\ UNCHANGED << cfg, budget, ud, request, response, pendingExc, response_cb_outcome,
                    polls, lockVars, futVars, dVars, envVars, inv, hist >>

\* Call user-supplied callback, if set, to get a request.  The callback may
\* raise, return nothing or return a request of its own, and may write its
\* output key through the Remapper.
ReqCb ==
    /\ pc = "reqcb"
    /\ IF ~cfg.request_cb
       THEN Goto("nullcheck") /\ UNCHANGED << ud, heap, request, hist >>
       ELSE \E writes \in BOOLEAN :
              /\ ud' = (IF writes THEN [ud EXCEPT !["cbout"] = Val("reqcb")] ELSE ud)
              /\ \/ /\ Raise("CallbackError")
                    /\ hist' = [hist EXCEPT !.reqCbCalled = TRUE, !.reqCbRaised = TRUE]
                    /\ UNCHANGED << heap, request >>
                 \/ /\ Goto("nullcheck")
                    /\ hist' = [hist EXCEPT !.reqCbCalled = TRUE]
                    /\ UNCHANGED << heap, request >>
                 \/ /\ Goto("nullcheck")
                    /\ heap' = [heap EXCEPT !["cbobj"] = FreshObj("cbobj")]
                    /\ request' = "cbobj"
                    /\ hist' = [hist EXCEPT !.reqCbCalled = TRUE, !.reqCbResult = "cbobj"]
    /\ UNCHANGED << cfg, budget, response, localVars, lockVars, futVars, dVars, envVars, inv >>

\* (mutant: the request is not tested before submission)
NullCheck_Missing ==
    /\ pc = "nullcheck"
    /\ Goto("acq_cond")
    /\ UNCHANGED << cfg, budget, dataVars, localVars, lockVars, futVars, dVars, envVars,
                    inv, hist >>

NullCheck ==
    /\ pc = "nullcheck"
    /\ IF request = None THEN Return("aborted") ELSE Goto("acq_cond")
    /\ UNCHANGED << cfg, budget, dataVars, localVars, lockVars, futVars, dVars, envVars,
                    inv, hist >>

\* ------------------------------------------- the lock of self._done_cond
\* threading.Condition() is built on an RLock: its owner may re-enter it
\* (mutant: the lock excludes nobody)
CondAcquirable_NoExclusion(t) == TRUE

CondAcquirable(t) == condOwner \in {"free", t}
CondAcquire(t) == condOwner' = t /\ condCount' = condCount + 1
CondRelease ==
    /\ condCount' = condCount - 1
    /\ condOwner' = (IF condCount = 1 THEN "free" ELSE condOwner)

\* Condition.notify(): releases the one waiter, if there is one
Notify(c) ==
    IF waiting /\ ~notified
    THEN notified' = TRUE /\ hist' = [hist EXCEPT !.wokenBy = c]
    ELSE UNCHANGED << notified, hist >>

\* ------------------------------------------------- execute, lines 185-197
\* with self._done_cond:
EnterCond ==
    /\ pc = "acq_cond"
    /\ CondAcquirable("main")
    /\ CondAcquire("main")
    /\ Goto("acq_tasks")
    /\ UNCHANGED << cfg, budget, dataVars, localVars, waiting, notified, tasksLock, futVars,
                    dVars, envVars, inv, hist >>

\* with self.node.executor._tasks_lock:
EnterTasksLock ==
    /\ pc = "acq_tasks"
    /\ tasksLock = "free"
    /\ tasksLock' = "main"
    /\ Goto("call_async")
    /\ UNCHANGED << cfg, budget, dataVars, localVars, condOwner, condCount, waiting, notified,
                    futVars, dVars, envVars, inv, hist >>

\* future = self._proxy.call_async(self._request)
CallAsync ==
    /\ pc = "call_async"
    /\ \/ \E e \in SubmitErrors :
             /\ pendingExc' = e
             /\ Goto("except")
             /\ hist' = [hist EXCEPT !.submitRaised = e]
             /\ UNCHANGED futVars
       \/ /\ nCalls' = nCalls + 1
          /\ pendingCalls' = pendingCalls \cup {nCalls + 1}
          /\ hist' = [hist EXCEPT !.calls = @ + 1, !.myCall = nCalls + 1,
                                  !.sent = IF request = None THEN NoneVal
                                           ELSE heap[request]]
          /\ Goto("add_cb")
          /\ UNCHANGED << pendingExc, doneCalls, registered, scheduled >>
    /\ UNCHANGED << cfg, budget, dataVars, slotIdx, response_cb_outcome, polls, lockVars,
                    dVars, envVars, inv >>

\* future.add_done_callback(self._done_cb): a pending future keeps the
\* callback; a future that is already done hands it to the executor or calls
\* it on the spot, on the calling thread
AddDoneCallback ==
    /\ pc = "add_cb"
    /\ LET c == hist.myCall IN
       \/ \E e \in SubmitErrors :
             /\ pendingExc' = e
             /\ Goto("except")
             /\ hist' = [hist EXCEPT !.submitRaised = e]
             /\ UNCHANGED << registered, scheduled >>
       \/ /\ c \in pendingCalls
          /\ registered' = registered \cup {c}
          /\ Goto("rel_tasks")
          /\ hist' = [hist EXCEPT !.regs = @ + 1]
          /\ UNCHANGED << pendingExc, scheduled >>
       \/ /\ c \in doneCalls
          /\ scheduled' = scheduled \cup {c}
          /\ Goto("rel_tasks")
          /\ hist' = [hist EXCEPT !.early = TRUE, !.regs = @ + 1]
          /\ UNCHANGED << pendingExc, registered >>
       \/ /\ c \in doneCalls
          /\ Goto("sync_acq")
          /\ hist' = [hist EXCEPT !.syncFired = TRUE, !.regs = @ + 1]
          /\ UNCHANGED << pendingExc, registered, scheduled >>
    /\ UNCHANGED << cfg, budget, dataVars, slotIdx, response_cb_outcome, polls, lockVars,
                    pendingCalls, doneCalls, nCalls, dVars, envVars, inv >>

\* _done_cb called on the invoking thread, from inside add_done_callback
SyncDoneCbEnter ==
    /\ pc = "sync_acq"
    /\ CondAcquirable("main")
    /\ CondAcquire("main")
    /\ Goto("sync_store")
    /\ UNCHANGED << cfg, budget, dataVars, localVars, waiting, notified, tasksLock, futVars,
                    dVars, envVars, inv, hist >>

SyncDoneCbStore ==
    /\ pc = "sync_store"
    /\ response' = Result(hist.myCall)
    /\ hist' = [hist EXCEPT !.writes = @ + 1]
    /\ Goto("sync_notify")
    /\ UNCHANGED << cfg, budget, ud, heap, request, localVars, lockVars, futVars, dVars,
                    envVars, inv >>

SyncDoneCbNotify ==
    /\ pc = "sync_notify"
    /\ Notify(hist.myCall)
    /\ Goto("sync_exit")
    /\ UNCHANGED << cfg, budget, dataVars, localVars, condOwner, condCount, waiting, tasksLock,
                    futVars, dVars, envVars, inv >>

SyncDoneCbExit ==
    /\ pc = "sync_exit"
    /\ CondRelease
    /\ Goto("rel_tasks")
    /\ UNCHANGED << cfg, budget, dataVars, localVars, waiting, notified, tasksLock, futVars,
                    dVars, envVars, inv, hist >>

\* leaving the inner with-block normally
ExitTasksLock ==
    /\ pc = "rel_tasks"
    /\ tasksLock' = "free"
    /\ Goto("wait")
    /\ UNCHANGED << cfg, budget, dataVars, localVars, condOwner, condCount, waiting, notified,
                    futVars, dVars, envVars, inv, hist >>

\* the exception types the except clause of line 192 names
Caught(e) == e = "TypeError"

\* an exception raised inside the with-blocks: both are left, which releases
\* their locks, and the except clause returns 'aborted' for what it names
\* (mutant: the exception leaves the with-blocks without releasing the locks)
SubmitExcept_KeepsLocks ==
    /\ pc = "except"
    /\ pendingExc' = None
    /\ IF Caught(pendingExc) THEN Return("aborted") ELSE Raise(pendingExc)
    /\ UNCHANGED << cfg, budget, dataVars, slotIdx, response_cb_outcome, polls, lockVars,
                    futVars, dVars, envVars, inv, hist >>

SubmitExcept ==
    /\ pc = "except"
    /\ tasksLock' = "free"
    /\ CondRelease
    /\ pendingExc' = None
    /\ IF Caught(pendingExc) THEN Return("aborted") ELSE Raise(pendingExc)
    /\ UNCHANGED << cfg, budget, dataVars, slotIdx, response_cb_outcome, polls, waiting,
                    notified, futVars, dVars, envVars, inv, hist >>

\* self._done_cond.wait(): gives the lock up and blocks until notified
CondWait ==
    /\ pc = "wait"
    /\ condOwner' = "free"
    /\ condCount' = 0
    /\ waiting' = TRUE
    /\ notified' = FALSE
    /\ Goto("blocked")
    /\ UNCHANGED << cfg, budget, dataVars, localVars, tasksLock, futVars, dVars, envVars,
                    inv, hist >>

\* (mutant: wait() returns without having been notified)
CondWake_Unnotified ==
    /\ pc = "blocked"
    /\ condOwner = "free"
    /\ condOwner' = "main"
    /\ condCount' = 1
    /\ waiting' = FALSE
    /\ notified' = FALSE
    /\ Goto("exit_cond")
    /\ UNCHANGED << cfg, budget, dataVars, localVars, tasksLock, futVars, dVars, envVars,
                    inv, hist >>

\* (mutant: a preemption request also ends the wait)
CondWake_OrPreempt ==
    /\ pc = "blocked"
    /\ notified \/ preempt
    /\ condOwner = "free"
    /\ condOwner' = "main"
    /\ condCount' = 1
    /\ waiting' = FALSE
    /\ notified' = FALSE
    /\ Goto("exit_cond")
    /\ UNCHANGED << cfg, budget, dataVars, localVars, tasksLock, futVars, dVars, envVars,
                    inv, hist >>

\* wait() returns: the waiter was notified and takes the lock back
CondWake ==
    /\ pc = "blocked"
    /\ notified
    /\ condOwner = "free"
    /\ condOwner' = "main"
    /\ condCount' = 1
    /\ waiting' = FALSE
    /\ notified' = FALSE
    /\ Goto("exit_cond")
    /\ UNCHANGED << cfg, budget, dataVars, localVars, tasksLock, futVars, dVars, envVars,
                    inv, hist >>

ExitCond ==
    /\ pc = "exit_cond"
    /\ CondRelease
    /\ Goto("respcb")
    /\ UNCHANGED << cfg, budget, dataVars, localVars, waiting, notified, tasksLock, futVars,
                    dVars, envVars, inv, hist >>

\* ------------------------------------------------------ the service replies
\* the client's future for call c gets its result; a registered callback is
\* handed to the dispatch thread
ServiceReply ==
    /\ \E c \in pendingCalls :
          /\ pendingCalls' = pendingCalls \ {c}
          /\ doneCalls' = doneCalls \cup {c}
          /\ IF c \in registered
             THEN registered' = registered \ {c} /\ scheduled' = scheduled \cup {c}
             ELSE UNCHANGED << registered, scheduled >>
          /\ hist' = [hist EXCEPT !.early = @ \/ (c \in registered /\ c = hist.myCall
                                                  /\ pc \in {"rel_tasks", "wait"})]
    /\ UNCHANGED << cfg, budget, dataVars, pc, outcome, exception, localVars, lockVars,
                    nCalls, dVars, envVars, inv >>

\* ------------------------------------------ _done_cb on the dispatch thread
DoneCbEnter ==
    /\ pcD = "idle"
    /\ CondAcquirable("exec")
    /\ \E c \in scheduled :
          /\ scheduled' = scheduled \ {c}
          /\ dCall' = c
    /\ CondAcquire("exec")
    /\ pcD' = "store"
    /\ UNCHANGED << cfg, budget, dataVars, pc, outcome, exception, localVars, waiting, notified,
                    tasksLock, pendingCalls, doneCalls, registered, nCalls, envVars,
                    inv, hist >>

\* (mutant: the handler notifies without storing the result)
DoneCbStore_Skip ==
    /\ pcD = "store"
    /\ pcD' = "notify"
    /\ UNCHANGED << cfg, budget, dataVars, pc, outcome, exception, localVars, lockVars,
                    futVars, dCall, envVars, inv, hist >>

DoneCbStore ==
    /\ pcD = "store"
    /\ response' = Result(dCall)
    /\ hist' = [hist EXCEPT !.writes = @ + 1]
    /\ pcD' = "notify"
    /\ UNCHANGED << cfg, budget, ud, heap, request, pc, outcome, exception, localVars, lockVars,
                    futVars, dCall, envVars, inv >>

DoneCbNotify ==
    /\ pcD = "notify"
    /\ Notify(dCall)
    /\ pcD' = "exit"
    /\ UNCHANGED << cfg, budget, dataVars, pc, outcome, exception, localVars, condOwner,
                    condCount, waiting, tasksLock, futVars, dCall, envVars, inv >>

DoneCbExit ==
    /\ pcD = "exit"
    /\ CondRelease
    /\ pcD' = "idle"
    /\ dCall' = 0
    /\ UNCHANGED << cfg, budget, dataVars, pc, outcome, exception, localVars, waiting, notified,
                    tasksLock, futVars, envVars, inv, hist >>

\* ------------------------------------------------- execute, lines 199-230
\* the except clause of lines 216-219 formats its message with
\* traceback.format_exc(): evaluating the name fails when no import binds it
HandlerFails == "traceback" \notin ImportedModules

RespCbExcept ==
    IF HandlerFails THEN Raise("NameError") ELSE Return("aborted")

\* (mutant: the membership test is missing)
Undeclared_NoTest(label) == FALSE

\* the membership test of line 212
Undeclared(label) == label # None /\ label \notin RegisteredOutcomes

\* Call response callback if it's set.  The callback may raise, or return
\* nothing or a label, and may write its output key through the Remapper.
RespCb ==
    /\ pc = "respcb"
    /\ IF ~cfg.response_cb
       THEN /\ Goto("respkey")
            /\ hist' = [hist EXCEPT !.consumed = response]
            /\ UNCHANGED << ud, response_cb_outcome >>
       ELSE IF response = Unset
       THEN /\ RespCbExcept
            /\ hist' = [hist EXCEPT !.respCbRaised = TRUE]
            /\ UNCHANGED << ud, response_cb_outcome >>
       ELSE \E writes \in BOOLEAN :
              /\ ud' = (IF writes THEN [ud EXCEPT !["cbout"] = Val("respcb")] ELSE ud)
              /\ \/ /\ RespCbExcept
                    /\ hist' = [hist EXCEPT !.consumed = response,
                                            !.respCbRaised = TRUE]
                    /\ UNCHANGED response_cb_outcome
                 \/ \E label \in CbLabels :
                       /\ response_cb_outcome' = label
                       /\ hist' = [hist EXCEPT !.consumed = response,
                                               !.respCbResult = label]
                       /\ IF Undeclared(label) THEN Return("aborted")
                          ELSE Goto("respkey")
    /\ slotIdx' = 1
    /\ UNCHANGED << cfg, budget, heap, request, response, pendingExc, polls, lockVars,
                    futVars, dVars, envVars, inv >>

\* (mutant: the response key is written only when the callback gave no label)
RespKey_OnlyIfNoOutcome ==
    /\ pc = "respkey"
    /\ ud' = (IF cfg.response_key # None /\ response_cb_outcome = None
              THEN [ud EXCEPT ![cfg.response_key] = response] ELSE ud)
    /\ Goto("respslots")
    /\ UNCHANGED << cfg, budget, heap, request, response, localVars, lockVars, futVars,
                    dVars, envVars, inv, hist >>

\* (mutant: the response is written to a blackboard key nobody configured)
RespKey_AlwaysWrites ==
    /\ pc = "respkey"
    /\ ud' = [ud EXCEPT !["resp"] = response]
    /\ Goto("respslots")
    /\ UNCHANGED << cfg, budget, heap, request, response, localVars, lockVars, futVars,
                    dVars, envVars, inv, hist >>

RespKey ==
    /\ pc = "respkey"
    /\ ud' = (IF cfg.response_key # None
              THEN [ud EXCEPT ![cfg.response_key] = response] ELSE ud)
    /\ Goto("respslots")
    /\ UNCHANGED << cfg, budget, heap, request, response, localVars, lockVars, futVars,
                    dVars, envVars, inv, hist >>

\* one iteration of: for key in self._response_slots
RespSlot ==
    /\ pc = "respslots"
    /\ IF slotIdx > Len(cfg.response_slots)
       THEN Goto("ret") /\ UNCHANGED << ud, slotIdx >>
       ELSE LET key == cfg.response_slots[slotIdx] IN
            IF response = Unset
            THEN Raise("AttributeError") /\ UNCHANGED << ud, slotIdx >>
            ELSE /\ ud' = [ud EXCEPT ![key] = RespField(response, key)]
                 /\ slotIdx' = slotIdx + 1
                 /\ Goto("respslots")
    /\ UNCHANGED << cfg, budget, heap, request, response, pendingExc, response_cb_outcome,
                    polls, lockVars, futVars, dVars, envVars, inv, hist >>

ReturnOutcome ==
    /\ pc = "ret"
    /\ IF response_cb_outcome # None THEN Return(response_cb_outcome)
       ELSE Return("succeeded")
    /\ UNCHANGED << cfg, budget, dataVars, localVars, lockVars, futVars, dVars, envVars,
                    inv, hist >>

\* --------------------------------------------------------- specification
Next ==
    \/ Invoke
    \/ ContainerWrites
    \/ RequestPreempt
    \/ Shutdown
    \/ ServiceChange
    \/ PreemptGate
    \/ LoopCheck
    \/ LoopPreempt
    \/ LoopOk
    \/ LoopWait
    \/ ReqKey
    \/ ReqSlot
    \/ ReqCb
    \/ NullCheck
    \/ EnterCond
    \/ EnterTasksLock
    \/ CallAsync
    \/ AddDoneCallback
    \/ SyncDoneCbEnter
    \/ SyncDoneCbStore
    \/ SyncDoneCbNotify
    \/ SyncDoneCbExit
    \/ ExitTasksLock
    \/ SubmitExcept
    \/ CondWait
    \/ CondWake
    \/ ExitCond
    \/ ServiceReply
    \/ DoneCbEnter
    \/ DoneCbStore
    \/ DoneCbNotify
    \/ DoneCbExit
    \/ RespCb
    \/ RespKey
    \/ RespSlot
    \/ ReturnOutcome

\* the steps of the invoking thread inside execute, and of the dispatch thread
MainStep ==
    \/ PreemptGate \/ LoopCheck \/ LoopPreempt \/ LoopOk \/ LoopWait
    \/ ReqKey \/ ReqSlot \/ ReqCb \/ NullCheck
    \/ EnterCond \/ EnterTasksLock \/ CallAsync \/ AddDoneCallback
    \/ SyncDoneCbEnter \/ SyncDoneCbStore \/ SyncDoneCbNotify \/ SyncDoneCbExit
    \/ ExitTasksLock \/ SubmitExcept \/ CondWait \/ CondWake \/ ExitCond
    \/ RespCb \/ RespKey \/ RespSlot \/ ReturnOutcome

DispatchStep == DoneCbEnter \/ DoneCbStore \/ DoneCbNotify \/ DoneCbExit

Spec == Init /\ [][Next]_vars
SeqSpec == SeqInit /\ [][Next]_vars

\* Both threads keep running while they can take a step, and the service
\* answers every call it was sent.
FairSpec ==
    /\ LiveInit
    /\ [][Next]_vars
    /\ WF_vars(MainStep)
    /\ WF_vars(DispatchStep)
    /\ WF_vars(ServiceReply)

\* ================================================================ claims

\* the invoking thread sits in wait() and nothing is left that could notify it
NoWakeupPossible ==
    /\ pc = "blocked"
    /\ ~notified
    /\ pendingCalls \cap registered = {}
    /\ scheduled = {}
    /\ pcD = "idle"

\* C1: when _done_cb ran on the invoking thread inside add_done_callback,
\* before the waiter blocked, execute is never left blocked on the bridge
\* with no notification to come.
C1_SyncCompletionObserved == hist.syncFired => ~NoWakeupPossible

\* positions between call submission and the return of wait()
AtBridge == { "rel_tasks", "wait", "blocked" }

\* C2: with the completion delivered by the dispatch thread, whatever the
\* interleaving, an invocation that has submitted its call eventually leaves
\* the bridge wait.
C2_AsyncCompletionNotMissed ==
    [](  (pc \in AtBridge /\ ~hist.syncFired) => <>(pc \notin AtBridge) )

\* C2 witness: the completion arrived after submission and before the
\* invoking thread blocked, and the invoking thread is past the wait.
C2_Witness == hist.early /\ ~hist.syncFired /\ pc = "respcb"
                /\ hist.wokenBy = hist.myCall

C4_AlwaysDeclaredOutcome ==
    pc = "done" => (exception = None /\ outcome \in RegisteredOutcomes)

\* C5: when the response callback raised, execute returned 'aborted' and
\* nothing propagated.
C5_RespCbExceptionAborted ==
    (pc = "done" /\ hist.respCbRaised) => (exception = None /\ outcome = "aborted")

\* C6: when call_async or add_done_callback raised, whatever the exception
\* type, execute returned 'aborted' with both locks released.
C6_SubmitExceptionAborted ==
    (pc = "done" /\ hist.submitRaised # None) =>
        /\ exception = None
        /\ outcome = "aborted"
        /\ condOwner # "main"
        /\ tasksLock # "main"

\* C7: a label returned by execute is always declared, and a response
\* callback that returned an undeclared label makes execute return 'aborted'.
C7_OutcomeValidity ==
    /\ (pc = "done" /\ exception = None) => outcome \in RegisteredOutcomes
    /\ (pc = "done" /\ hist.respCbResult # None
          /\ hist.respCbResult \notin RegisteredOutcomes) =>
             (exception = None /\ outcome = "aborted")

\* C7 witness: the response callback returned an undeclared label and execute
\* returned 'aborted'
C7_Witness ==
    /\ pc = "done"
    /\ hist.respCbResult \in {"bogus", "custom"}
    /\ hist.respCbResult \notin RegisteredOutcomes
    /\ outcome = "aborted"

\* the blackboard as a reader sees it: each key with the contents of the
\* object it holds
Blackboard(u, h) == [k \in Keys |-> IF u[k].t = "ref" THEN h[u[k].o] ELSE u[k]]

\* the request key, or one of the request slot keys, is not in blackboard u
MissingInput(u) ==
    \/ cfg.request_key # None /\ u[cfg.request_key] = Absent
    \/ \E i \in 1..Len(cfg.request_slots) : u[cfg.request_slots[i]] = Absent

\* C8: an invocation that reached request construction with the request key
\* or a request slot key missing returned 'aborted', made no call, did not
\* call the request callback and left the blackboard as it was.
C8_MissingInputAborts ==
    (pc = "done" /\ hist.built /\ MissingInput(hist.ud0)) =>
        /\ exception = None
        /\ outcome = "aborted"
        /\ hist.calls = 0
        /\ ~hist.reqCbCalled
        /\ Blackboard(ud, heap) = Blackboard(hist.ud0, hist.heap0)

\* the request slots i.. of blackboard u copied into obj
RECURSIVE CopySlots(_, _, _)
CopySlots(obj, u, i) ==
    IF i > Len(cfg.request_slots) THEN obj
    ELSE CopySlots(SetAttr(obj, cfg.request_slots[i], u[cfg.request_slots[i]].v),
                   u, i + 1)

\* the request an invocation builds from the construction-time default, the
\* blackboard it was given and what its request callback returned
ExpectedRequest ==
    IF hist.reqCbResult # None THEN FreshObj(hist.reqCbResult)
    ELSE CopySlots(IF cfg.request_key # None /\ hist.ud0["req"].t = "ref"
                   THEN hist.heap0[hist.ud0["req"].o]
                   ELSE FreshObj("dflt"),
                   hist.ud0, 1)

\* C9: the request an invocation dispatches is the one built from the
\* construction-time default and this invocation's blackboard and callback
\* result; nothing an earlier invocation did to the request shows in it.
C9_RequestInvocationScoped == hist.calls > 0 => hist.sent = ExpectedRequest

\* positions of execute after wait() has returned
PostWait == { "exit_cond", "respcb", "respkey", "respslots", "ret" }

\* the calls whose completion handler has still to run or is running
OutstandingCompletions ==
    registered \cup scheduled \cup (IF pcD = "idle" THEN {} ELSE {dCall})

\* C10: during an invocation only the call this invocation dispatched has a
\* completion outstanding; the wait is released by that call's completion,
\* and the response read after the wait, passed to the response callback and
\* written to the blackboard is that call's result.
C10_NoCrossInvocationLeak ==
    /\ pc # "done" => OutstandingCompletions \subseteq {hist.myCall} \ {0}
    /\ hist.wokenBy # 0 => hist.wokenBy = hist.myCall
    /\ pc \in PostWait => (hist.myCall # 0 /\ response = Result(hist.myCall))
    /\ hist.consumed # Unset => hist.consumed = Result(hist.myCall)
    /\ (pc \in {"respslots", "ret"} /\ cfg.response_key # None) =>
          ud[cfg.response_key] = Result(hist.myCall)

\* C10 witness: the second invocation on the instance, after a first one that
\* dispatched a call, returned with its own call's response in the blackboard
C10_Witness ==
    /\ inv = 2
    /\ hist.myCall = 2
    /\ pc = "done"
    /\ outcome = "succeeded"
    /\ cfg.response_key # None
    /\ ud[cfg.response_key] = Result(2)

\* C11: in one invocation self._response is written at most once, and only
\* by _done_cb; a notification is only ever pending after that write; and
\* when the invoking thread is past wait(), where it reads the response, the
\* handler of its own call has stored the response and released the wait.
C11_ResponseWrittenOnceBeforeRead ==
    /\ []( hist.writes <= 1 )
    /\ []( notified => (hist.writes = 1 /\ response = Result(hist.myCall)) )
    /\ []( pc \in PostWait =>
             /\ hist.writes = 1
             /\ hist.wokenBy = hist.myCall
             /\ response = Result(hist.myCall) )
    /\ [][ response' # response => (pcD = "store" \/ pc = "sync_store") ]_vars

\* C11 witness: a second invocation reads the response its own call's
\* handler stored
C11_Witness ==
    /\ inv = 2
    /\ pc = "respcb"
    /\ hist.writes = 1
    /\ hist.myCall = 2
    /\ response = Result(2)

\* C12 (as stated): execute never returns 'aborted' while a preemption
\* request made before or during the invocation is still pending.
C12_PreemptBeforeAnyAbort ==
    (pc = "done" /\ outcome = "aborted") => ~(preempt /\ hist.preemptIn)

\* C12 (amended): a request pending when execute is entered always ends the
\* invocation with 'preempted'; and the shutdown test of the readiness loop
\* is only reached from the preemption test of the same iteration, which
\* found no request pending.
C12_PreemptCheckedBeforeShutdown ==
    /\ []( (pc = "done" /\ hist.atEntry) => (outcome = "preempted" /\ hist.calls = 0) )
    /\ [][ (pc' = "loop_ok" /\ pc # "loop_ok") => (pc = "loop_preempt" /\ ~preempt) ]_vars
    /\ [][ (pc = "loop_preempt" /\ pc' # pc /\ preempt) =>
             (pc' = "done" /\ outcome' = "preempted" /\ ~preempt') ]_vars
    /\ []( (pc = "done" /\ hist.shutdownAbort) => (outcome = "aborted" /\ ~hist.atEntry) )

\* C12 witness: shutdown ended the readiness wait with 'aborted' after the
\* iteration's preemption test had found nothing, and a request that came
\* later is still pending
C12_Witness ==
    /\ pc = "done"
    /\ outcome = "aborted"
    /\ hist.shutdownAbort
    /\ hist.preemptIn
    /\ preempt

\* C13: each readiness-loop iteration that finds the endpoint not ready
\* tests preemption, then rclpy.ok(), then waits one poll interval and tests
\* readiness again; preemption seen there is acknowledged and gives
\* 'preempted'; shutdown seen there gives 'aborted'; neither dispatches a
\* call, after any number of iterations.
C13_ReadinessLoop ==
    /\ [][ (pc = "loop" /\ pc' # pc) =>
             \/ serviceReady /\ pc' = "reqkey"
             \/ ~serviceReady /\ pc' = "loop_preempt"
             \/ pc' = "done" /\ outcome' = "aborted" ]_vars
    /\ [][ (pc = "loop_preempt" /\ pc' # pc) =>
             IF preempt
             THEN pc' = "done" /\ outcome' = "preempted" /\ ~preempt' /\ hist'.calls = 0
             ELSE pc' = "loop_ok" ]_vars
    /\ [][ (pc = "loop_ok" /\ pc' # pc) =>
             IF ~rclpyOk
             THEN pc' = "done" /\ outcome' = "aborted" /\ exception' = None
                  /\ hist'.calls = 0
             ELSE pc' = "loop_wait" ]_vars
    /\ [][ (pc = "loop_wait" /\ pc' # pc) => (pc' = "loop" /\ polls' = polls + 1) ]_vars
    /\ []( (pc = "done" /\ hist.shutdownAbort) =>
             (outcome = "aborted" /\ hist.calls = 0 /\ hist.regs = 0 /\ ~hist.built) )

\* C13 witness: the endpoint never became ready and shutdown was seen after
\* several iterations, no preemption having been requested
C13_Witness ==
    /\ pc = "done"
    /\ outcome = "aborted"
    /\ hist.shutdownAbort
    /\ polls >= MaxPolls
    /\ ~hist.preemptIn
    /\ hist.calls = 0

\* C14: when wait() has returned and the response callback, if there is one,
\* returned nothing or a registered label, execute returns that label, or
\* 'succeeded' for nothing, and has written the response the handler stored
\* to the response key and its fields to the response slot keys, with or
\* without a label from the callback.
C14_OutputPropagation ==
    ( /\ pc = "done"
      /\ hist.consumed # Unset
      /\ ~hist.respCbRaised
      /\ ~Undeclared(hist.respCbResult) ) =>
        /\ exception = None
        /\ outcome = (IF hist.respCbResult # None THEN hist.respCbResult ELSE "succeeded")
        /\ hist.writes = 1
        /\ hist.consumed = Result(hist.myCall)
        /\ cfg.response_key # None => ud[cfg.response_key] = Result(hist.myCall)
        /\ \A i \in 1..Len(cfg.response_slots) :
              ud[cfg.response_slots[i]] =
                 RespField(Result(hist.myCall), cfg.response_slots[i])

\* C14 witness: the callback returned a registered label of its own and the
\* response key and slot were written all the same
C14_Witness ==
    /\ pc = "done"
    /\ outcome = "custom"
    /\ hist.respCbResult = "custom"
    /\ cfg.response_key = "resp"
    /\ cfg.response_slots = << "r" >>
    /\ ud["resp"] = Result(hist.myCall)
    /\ ud["r"] = RespField(Result(hist.myCall), "r")
    /\ hist.ud0["resp"] = Absent

\* the constructor was given neither a request policy nor a response policy
PlainConfig ==
    /\ cfg.request_key = None
    /\ cfg.request_slots = <<>>
    /\ ~cfg.request_cb
    /\ ~cfg.response_cb
    /\ cfg.response_key = None
    /\ cfg.response_slots = <<>>

\* C15: with the default request and no request or response policy, an
\* invocation whose call completed returns 'succeeded' and leaves every
\* blackboard key, and every object the blackboard holds, as it found them.
C15_PlainCallLeavesBlackboard ==
    (PlainConfig /\ pc = "done" /\ hist.wokenBy # 0) =>
        /\ exception = None
        /\ outcome = "succeeded"
        /\ hist.calls = 1
        /\ ud = hist.ud0
        /\ Blackboard(ud, heap) = Blackboard(hist.ud0, hist.heap0)

\* C15 witness: such an invocation has returned after its call completed
C15_Witness ==
    /\ PlainConfig
    /\ pc = "done"
    /\ outcome = "succeeded"
    /\ hist.wokenBy = hist.myCall
    /\ hist.calls = 1
    /\ response = Result(hist.myCall)

\* an invocation calls call_async at most once and registers at most one
\* completion handler, and has called it exactly once when it returns
\* 'succeeded' or the response callback's label
AtMostOneCall ==
    /\ hist.calls <= 1
    /\ hist.regs <= hist.calls
    /\ (pc = "done" /\ outcome \in RegisteredOutcomes \ {"aborted", "preempted"}) =>
          (hist.calls = 1 /\ hist.regs = 1)

\* C16: an invocation calls call_async at most once and registers at most
\* one completion handler, calls it exactly once when it returns 'succeeded'
\* or the response callback's label, and ends with exactly one outcome.
C16_OneCallOneOutcome ==
    /\ AtMostOneCall
    /\ pc = "done" => (exception = None /\ outcome \in RegisteredOutcomes)

\* the invocation submitted its call and registered the completion handler
Dispatched == hist.regs > 0

Submitting == { "acq_cond", "acq_tasks", "call_async", "add_cb", "sync_acq",
               "sync_store", "sync_notify", "sync_exit", "rel_tasks", "except" }

\* C18: the request is not None wherever execute submits it or has
\* submitted it; a request that is None after the request key, the slots and
\* the request callback gives 'aborted' with no call; and the request
\* callback's result replaces the request exactly when it is not None.
C18_NullRequestNeverDispatched ==
    /\ []( pc \in Submitting \cup {"wait", "blocked"} \cup PostWait => request # None )
    /\ []( hist.calls > 0 => request # None )
    /\ [][ (pc = "nullcheck" /\ pc' # pc) =>
             IF request = None
             THEN pc' = "done" /\ outcome' = "aborted" /\ exception' = None
                  /\ hist'.calls = 0
             ELSE pc' = "acq_cond" /\ request' = request ]_vars
    /\ [][ (pc = "reqcb" /\ pc' = "nullcheck") =>
             request' = (IF hist'.reqCbResult # None THEN hist'.reqCbResult
                         ELSE request) ]_vars

\* C18 witness: the blackboard held None under the request key, the request
\* callback returned nothing, and the invocation returned 'aborted' without
\* a call
C18_Witness ==
    /\ pc = "done"
    /\ outcome = "aborted"
    /\ cfg.request_key = "req"
    /\ hist.ud0["req"] = NoneVal
    /\ request = None
    /\ hist.reqCbCalled
    /\ hist.reqCbResult = None
    /\ hist.calls = 0

\* positions of execute at which the invoking thread holds
\* node.executor._tasks_lock
HoldsTasksLock == { "call_async", "add_cb", "sync_acq", "sync_store", "sync_notify",
                    "sync_exit", "rel_tasks", "except" }

\* C19: the invoking thread holds the executor's task lock only inside the
\* bridge lock and only from call_async to the end of the registration; it
\* holds neither lock while it is blocked in wait() nor once execute has
\* ended, by a return or by an exception; and a completion handler queued on
\* the dispatch thread always gets the bridge lock in the end.
C19_LockDiscipline ==
    /\ []( tasksLock = "main" <=> pc \in HoldsTasksLock )
    /\ []( tasksLock = "main" => (condOwner = "main" /\ condCount >= 1) )
    /\ []( pc \in {"wait", "blocked"} \cup PostWait => tasksLock # "main" )
    /\ []( pc = "blocked" => condOwner # "main" )
    /\ []( pc \in {"idle", "done"} =>
             (condOwner # "main" /\ tasksLock # "main") )
    /\ []( condOwner = "free" <=> condCount = 0 )
    /\ []( scheduled # {} => <>(pcD = "store") )

\* C19 witness: an exception other than TypeError left execute from inside
\* both with-blocks, and both locks are free
C19_Witness ==
    /\ pc = "done"
    /\ exception = "RuntimeError"
    /\ hist.submitRaised = "RuntimeError"
    /\ condOwner = "free"
    /\ tasksLock = "free"

\* execute returned 'aborted' after wait() had returned
AbortedAfterRelease ==
    pc = "done" /\ outcome = "aborted" /\ hist.wokenBy # 0 /\ hist.consumed # Unset

\* no blackboard key other than the callbacks' output key has been rebound
\* since the invocation began: neither the response key nor a response slot
\* key was written
OutputsNotPropagated == \A k \in Keys \ {"cbout"} : ud[k] = hist.ud0[k]

\* C20: when execute returns 'aborted' after the bridge has released, it has
\* written neither the response key nor a response slot key, and nothing in
\* the blackboard differs from what the invocation was given except what
\* the callbacks wrote to their output key.
C20_AbortSkipsPropagation ==
    AbortedAfterRelease =>
        /\ OutputsNotPropagated
        /\ \A k \in Keys \ {"cbout"} :
              Blackboard(ud, heap)[k] = Blackboard(hist.ud0, hist.heap0)[k]

====
